---- MODULE Spec2Model ----
(***************************************************************************)
(* Model of the minesweeper board engine of src/src/lib.rs: Board::at,     *)
(* Board::replace, create_board, surrounding_points, numbers_on_board and  *)
(* open_item.                                                              *)
(*                                                                         *)
(* A Point is a record [x, y] of i32.  A MapElement is a record            *)
(* [kind, open] (Mine, Empty) or [kind, open, count] (Number).  A Board    *)
(* is a record [map, width, height, mines]; map is a sequence of height    *)
(* rows of width cells, so the cell of Point (x, y) is map[y + 1][x + 1].  *)
(* An Option is [some |-> FALSE] or [some |-> TRUE, val |-> v].  A call    *)
(* that can panic returns [ok |-> FALSE] or [ok |-> TRUE, val |-> v].      *)
(***************************************************************************)
EXTENDS Integers, Sequences, FiniteSets, TLC

VARIABLES
    pc,               \* position of the caller in Generate -> Annotate -> Reveal*
    width,            \* create_board's argument width
    height,           \* create_board's argument height
    mines,            \* create_board's argument mines
    points,           \* create_board's local Vec<Point>
    tape,             \* history: the values the random source has returned
    board,            \* the board the caller currently holds
    annotated,        \* history: the board numbers_on_board returned
    opened,           \* history: the points opened so far
    ret,              \* the last call and what it returned
    overflow_checks   \* build profile: TRUE panics on i32 overflow, FALSE wraps

vars == <<pc, width, height, mines, points, tape, board, annotated, opened, ret,
          overflow_checks>>

---------------------------------------------------------------------------
(* Bounds of the model *)

MaxSide == 2
MaxMines == 2
MaxDraws == 3
MaxOpens == 2

(* i32 *)
I32Max == 2147483647
I32Min == -I32Max - 1

---------------------------------------------------------------------------
(* Values *)

Mine(o) == [kind |-> "Mine", open |-> o]
Empty(o) == [kind |-> "Empty", open |-> o]
Number(o, c) == [kind |-> "Number", open |-> o, count |-> c]

None == [some |-> FALSE]
Some(v) == [some |-> TRUE, val |-> v]

Panic == [ok |-> FALSE]
Ok(v) == [ok |-> TRUE, val |-> v]

NoBoard == [map |-> <<>>, width |-> 0, height |-> 0, mines |-> 0]
NoCall == [op |-> "none"]

(* `n as i32` for a usize n: values above i32::MAX wrap to negative. *)
AsI32(n) == IF n <= I32Max THEN n ELSE (n - I32Max) - I32Max - 2

(* Point::new *)
Point_new(x, y) == [x |-> AsI32(x), y |-> AsI32(y)]

(* Option::unwrap: the value, or a panic *)
Unwrap(o) == IF o.some THEN Ok(o.val) ELSE Panic

(* Board::at with the lower bounds off by one: p.x <= 0, p.y <= 0 *)
at_low_off_by_one(b, p) ==
    LET w == AsI32(b.width)
        h == AsI32(b.height)
    IN  IF p.x <= 0 \/ p.x >= w \/ p.y <= 0 \/ p.y >= h
        THEN None
        ELSE Some(b.map[p.y + 1][p.x + 1])

(* Board::at *)
at(b, p) ==
    LET w == AsI32(b.width)
        h == AsI32(b.height)
    IN  IF p.x < 0 \/ p.x >= w \/ p.y < 0 \/ p.y >= h
        THEN None
        ELSE Some(b.map[p.y + 1][p.x + 1])

(* Board::replace comparing rows only: every cell of row p.y is replaced *)
replace_row(b, p, el) ==
    Ok([map |-> [y \in 1..b.height |->
                   [x \in 1..b.width |-> IF AsI32(y - 1) = p.y THEN el ELSE b.map[y][x]]],
        width |-> b.width,
        height |-> b.height,
        mines |-> b.mines])

(* Board::replace unwrapping the cell of p before rebuilding the grid *)
replace_checked(b, p, el) ==
    IF ~at(b, p).some
    THEN Panic
    ELSE Ok([map |-> [y \in 1..b.height |->
                        [x \in 1..b.width |-> IF Point_new(x - 1, y - 1) = p
                                               THEN el
                                               ELSE b.map[y][x]]],
             width |-> b.width,
             height |-> b.height,
             mines |-> b.mines])

(* Board::replace: the rebuilt grid; it panics when an unwrap does. *)
replace(b, p, el) ==
    LET cell(x, y) == IF Point_new(x, y) = p
                      THEN Ok(el)
                      ELSE Unwrap(at(b, Point_new(x, y)))
        cells == [y \in 1..b.height |-> [x \in 1..b.width |-> cell(x - 1, y - 1)]]
    IN  IF \E y \in 1..b.height, x \in 1..b.width : ~cells[y][x].ok
        THEN Panic
        ELSE Ok([map |-> [y \in 1..b.height |->
                            [x \in 1..b.width |-> cells[y][x].val]],
                 width |-> b.width,
                 height |-> b.height,
                 mines |-> b.mines])

(* i32 `a - 1`: on overflow a panic (overflow checks on) or a wrap (off) *)
SubOne(a) ==
    IF a = I32Min
    THEN (IF overflow_checks THEN Panic ELSE Ok(I32Max))
    ELSE Ok(a - 1)

(* i32 `a + 1`, likewise *)
AddOne(a) ==
    IF a = I32Max
    THEN (IF overflow_checks THEN Panic ELSE Ok(I32Min))
    ELSE Ok(a + 1)

(* surrounding_points with y outer and x inner *)
surrounding_points_y_outer(p) ==
    LET xm == SubOne(p.x)
        xp == AddOne(p.x)
        ym == SubOne(p.y)
        yp == AddOne(p.y)
    IN  IF ~xm.ok \/ ~xp.ok \/ ~ym.ok \/ ~yp.ok
        THEN Panic
        ELSE LET xs == <<xm.val, p.x, xp.val>>
                 ys == <<ym.val, p.y, yp.val>>
                 keep(q) == p.x # q.x \/ p.y # q.y
                 inner(y) == SelectSeq([i \in 1..3 |-> [x |-> xs[i], y |-> y]], keep)
             IN  Ok(inner(ys[1]) \o inner(ys[2]) \o inner(ys[3]))

(* surrounding_points: x outer, y inner, the point itself filtered out *)
surrounding_points(p) ==
    LET xm == SubOne(p.x)
        xp == AddOne(p.x)
        ym == SubOne(p.y)
        yp == AddOne(p.y)
    IN  IF ~xm.ok \/ ~xp.ok \/ ~ym.ok \/ ~yp.ok
        THEN Panic
        ELSE LET xs == <<xm.val, p.x, xp.val>>
                 ys == <<ym.val, p.y, yp.val>>
                 keep(q) == p.x # q.x \/ p.y # q.y
                 inner(x) == SelectSeq([i \in 1..3 |-> [x |-> x, y |-> ys[i]]], keep)
             IN  Ok(inner(xs[1]) \o inner(xs[2]) \o inner(xs[3]))

(* Iterator::sum over a sequence of i32 *)
RECURSIVE SumSeq(_)
SumSeq(s) == IF s = <<>> THEN 0 ELSE Head(s) + SumSeq(Tail(s))

(* the closure counting every cell that is there, mine or not *)
MineValueAnyCell(b, q) == IF at(b, q).some THEN 1 ELSE 0

(* numbers_on_board's closure for the neighbour q of a non-mine cell *)
MineValue(b, q) ==
    LET c == at(b, q)
    IN  IF ~c.some THEN 0
        ELSE IF c.val.kind = "Mine" THEN 1
        ELSE 0

(* the closure taking a Number as it takes an Empty, instead of            *)
(* unreachable!()                                                          *)
NumberCellLenient(b, x, y) ==
    LET point == Point_new(x, y)
        c == at(b, point)
    IN  IF c.some /\ c.val.kind = "Mine" THEN Ok(Mine(FALSE))
        ELSE IF c.some THEN
            LET sp == surrounding_points(point)
            IN  IF ~sp.ok THEN Panic
                ELSE LET count == SumSeq([i \in 1..Len(sp.val) |-> MineValue(b, sp.val[i])])
                     IN  IF count = 0
                         THEN Ok(Empty(FALSE))
                         ELSE Ok(Number(FALSE, count))
        ELSE Panic

(* numbers_on_board's closure for the cell (x, y) *)
NumberCell(b, x, y) ==
    LET point == Point_new(x, y)
        c == at(b, point)
    IN  IF c.some /\ c.val.kind = "Mine" THEN Ok(Mine(FALSE))
        ELSE IF c.some /\ c.val.kind = "Empty" THEN
            LET sp == surrounding_points(point)
            IN  IF ~sp.ok THEN Panic
                ELSE LET count == SumSeq([i \in 1..Len(sp.val) |-> MineValue(b, sp.val[i])])
                     IN  IF count = 0
                         THEN Ok(Empty(FALSE))
                         ELSE Ok(Number(FALSE, count))
        ELSE Panic   \* unreachable!()

(* numbers_on_board *)
numbers_on_board(b) ==
    LET cells == [y \in 1..b.height |->
                    [x \in 1..b.width |-> NumberCell(b, x - 1, y - 1)]]
    IN  IF \E y \in 1..b.height, x \in 1..b.width : ~cells[y][x].ok
        THEN Panic
        ELSE Ok([map |-> [y \in 1..b.height |->
                            [x \in 1..b.width |-> cells[y][x].val]],
                 height |-> b.height,
                 width |-> b.width,
                 mines |-> b.mines])

(* open_item matching on the variant alone, whatever `open` is *)
open_item_any_open(b, point) ==
    LET bp == at(b, point)
    IN  IF bp.some /\ bp.val.kind = "Empty"
        THEN replace(b, point, Empty(TRUE))
        ELSE IF bp.some /\ bp.val.kind = "Number"
        THEN replace(b, point, Number(TRUE, bp.val.count))
        ELSE Panic

(* open_item *)
open_item(b, point) ==
    LET bp == at(b, point)
    IN  IF bp.some /\ bp.val.kind = "Empty" /\ ~bp.val.open
        THEN replace(b, point, Empty(TRUE))
        ELSE IF bp.some /\ bp.val.kind = "Number" /\ ~bp.val.open
        THEN replace(b, point, Number(TRUE, bp.val.count))
        ELSE Panic   \* unreachable!()

(* Vec::contains *)
Contains(s, e) == \E i \in 1..Len(s) : s[i] = e

(* the pass without the contains check: every pair is pushed *)
LoopBodyNoContains(pts, x, y) == Append(pts, Point_new(x, y))

(* the pass with the draws taken as y, then x *)
LoopBodySwapped(pts, x, y) ==
    LET p == Point_new(y, x)
    IN  IF Contains(pts, p) THEN pts ELSE Append(pts, p)

(* create_board: one pass of the inner loop with the draws x and y *)
LoopBody(pts, x, y) ==
    LET p == Point_new(x, y)
    IN  IF Contains(pts, p) THEN pts ELSE Append(pts, p)

(* create_board: the grid built from the collected points *)
BuildBoard(w, h, m, pts) ==
    [map |-> [y \in 1..h |->
                [x \in 1..w |-> IF Contains(pts, Point_new(x - 1, y - 1))
                                THEN Mine(FALSE)
                                ELSE Empty(FALSE)]],
     width |-> w,
     height |-> h,
     mines |-> m]

(* create_board's loops run on a source that returns the values of tp in  *)
(* order and panics once they are used up (the tests' v.pop().unwrap())   *)
RECURSIVE PlaceMines(_, _, _)
PlaceMines(pts, m, tp) ==
    IF Len(pts) = m THEN Ok(pts)
    ELSE IF Len(tp) < 2 THEN Panic
    ELSE PlaceMines(LoopBody(pts, tp[1], tp[2]), m, SubSeq(tp, 3, Len(tp)))

(* create_board on such a source *)
create_board(w, h, m, tp) ==
    LET r == PlaceMines(<<>>, m, tp)
    IN  IF r.ok THEN Ok(BuildBoard(w, h, m, r.val)) ELSE Panic

---------------------------------------------------------------------------
(* The caller: Generate -> Annotate -> Reveal* *)

Sides == 0..MaxSide

(* the points a caller passes to at and replace: in and around the grid,   *)
(* and the i32 extremes                                                    *)
Coords == {I32Min, -1} \cup (0..MaxSide) \cup {I32Max}
Probes == {[x |-> x, y |-> y] : x \in Coords, y \in Coords}

(* the points a caller opens: in the grid and just outside it *)
Targets == {[x |-> x, y |-> y] : x \in -1..MaxSide, y \in -1..MaxSide}

(* the cells a caller passes to replace *)
Cells == {Mine(FALSE), Empty(TRUE), Number(TRUE, 8)}

Init ==
    /\ pc = "placing"
    /\ width \in Sides
    /\ height \in Sides
    /\ mines \in 0..MaxMines
    /\ points = <<>>
    /\ tape = <<>>
    /\ board = NoBoard
    /\ annotated = NoBoard
    /\ opened = {}
    /\ ret = NoCall
    /\ overflow_checks \in BOOLEAN

(* create_board: one pass of the inner loop, the source returning x, then y *)
DrawStep(x, y) ==
    /\ pc = "placing"
    /\ Len(points) < mines
    /\ x < width
    /\ y < height
    /\ points' = LoopBody(points, x, y)
    /\ UNCHANGED <<pc, width, height, mines, board, annotated, opened, ret,
                   overflow_checks>>

(* the pass, the values drawn recorded *)
Draw(x, y) ==
    /\ Len(tape) < 2 * MaxDraws
    /\ DrawStep(x, y)
    /\ tape' = tape \o <<x, y>>

(* the pass, unrecorded *)
DrawUntraced(x, y) ==
    /\ DrawStep(x, y)
    /\ UNCHANGED tape

(* create_board: the loops are done, the grid is built and returned; the   *)
(* Vec of points and the source are dropped, ret keeps what they were      *)
Build ==
    /\ pc = "placing"
    /\ Len(points) = mines
    /\ board' = BuildBoard(width, height, mines, points)
    /\ pc' = "created"
    /\ ret' = [op |-> "create_board", arg |-> [tape |-> tape, points |-> points],
               res |-> Ok(board')]
    /\ points' = <<>>
    /\ tape' = <<>>
    /\ UNCHANGED <<width, height, mines, annotated, opened, overflow_checks>>

(* numbers_on_board on the board create_board returned *)
Annotate ==
    /\ pc = "created"
    /\ LET r == numbers_on_board(board)
       IN  /\ ret' = [op |-> "numbers_on_board", stage |-> pc, arg |-> board, res |-> r]
           /\ IF r.ok
              THEN /\ board' = r.val
                   /\ annotated' = r.val
                   /\ pc' = "annotated"
              ELSE /\ pc' = "panicked"
                   /\ UNCHANGED <<board, annotated>>
    /\ UNCHANGED <<width, height, mines, points, tape, opened, overflow_checks>>

(* open_item(board, p), the returned board threaded forward *)
Open(p) ==
    /\ pc = "annotated"
    /\ LET r == open_item(board, p)
       IN  /\ r.ok => Cardinality(opened) < MaxOpens
           /\ ret' = [op |-> "open_item", arg |-> [board |-> board, point |-> p],
                      res |-> r]
           /\ IF r.ok
              THEN /\ board' = r.val
                   /\ opened' = opened \cup {p}
                   /\ pc' = "annotated"
              ELSE /\ pc' = "panicked"
                   /\ UNCHANGED <<board, opened>>
    /\ UNCHANGED <<width, height, mines, points, tape, annotated, overflow_checks>>

(* numbers_on_board called again, on the board in play *)
Reannotate ==
    /\ pc = "annotated"
    /\ LET r == numbers_on_board(board)
       IN  /\ ret' = [op |-> "numbers_on_board", stage |-> pc, arg |-> board, res |-> r]
           /\ IF r.ok
              THEN /\ board' = r.val
                   /\ annotated' = r.val
                   /\ opened' = {}
                   /\ pc' = "annotated"
              ELSE /\ pc' = "panicked"
                   /\ UNCHANGED <<board, annotated, opened>>
    /\ UNCHANGED <<width, height, mines, points, tape, overflow_checks>>

Next ==
    \/ \E x \in 0..(MaxSide - 1), y \in 0..(MaxSide - 1) : Draw(x, y)
    \/ Build
    \/ Annotate
    \/ \E p \in Targets : Open(p)
    \/ Reannotate

Spec == Init /\ [][Next]_vars

---------------------------------------------------------------------------
(* The caller holding a board and ending with one call of at or replace.   *)
(* Both take the board by reference and return a value, so a caller that   *)
(* went on would go on from the state it called in.                        *)

HoldsBoard == pc \in {"created", "annotated"}

(* board.at(&p) *)
AtCall(p) ==
    /\ HoldsBoard
    /\ ret' = [op |-> "at", arg |-> [board |-> board, point |-> p],
               res |-> at(board, p)]
    /\ pc' = "done"
    /\ UNCHANGED <<width, height, mines, points, tape, board, annotated, opened,
                   overflow_checks>>

(* board.replace(&p, el) *)
ReplaceCall(p, el) ==
    /\ HoldsBoard
    /\ ret' = [op |-> "replace", arg |-> [board |-> board, point |-> p, el |-> el],
               res |-> replace(board, p, el)]
    /\ pc' = "done"
    /\ UNCHANGED <<width, height, mines, points, tape, board, annotated, opened,
                   overflow_checks>>

NextBoard ==
    \/ \E x \in 0..(MaxSide - 1), y \in 0..(MaxSide - 1) : DrawUntraced(x, y)
    \/ Build
    \/ Annotate
    \/ \E p \in Probes : AtCall(p)
    \/ \E p \in Probes, el \in Cells : ReplaceCall(p, el)

SpecBoard == Init /\ [][NextBoard]_vars

---------------------------------------------------------------------------
(* surrounding_points called on its own, before any board is made *)

(* the coordinates passed: around 0 and at both ends of i32 *)
Extremes == {I32Min, I32Min + 1, I32Max - 1, I32Max}
PointCoords == Extremes \cup (-1..MaxSide)
PointArgs == {[x |-> x, y |-> y] : x \in PointCoords, y \in PointCoords}

(* surrounding_points(&p) *)
SurroundingCall(p) ==
    /\ pc = "placing"
    /\ ret' = [op |-> "surrounding_points", arg |-> p, res |-> surrounding_points(p)]
    /\ pc' = "done"
    /\ UNCHANGED <<width, height, mines, points, tape, board, annotated, opened,
                   overflow_checks>>

NextPoints == \E p \in PointArgs : SurroundingCall(p)

SpecPoints == Init /\ [][NextPoints]_vars

---------------------------------------------------------------------------
(* create_board on a fair source: the call goes on, and every in-range     *)
(* pair that would be accepted is drawn in the end                         *)

NextFair ==
    \/ \E x \in 0..(MaxSide - 1), y \in 0..(MaxSide - 1) : DrawUntraced(x, y)
    \/ Build

SpecFair ==
    /\ Init
    /\ [][NextFair]_vars
    /\ WF_vars(Build)
    /\ \A x \in 0..(MaxSide - 1), y \in 0..(MaxSide - 1) : WF_vars(DrawUntraced(x, y))

---------------------------------------------------------------------------
(* What the claims are stated with *)

(* the points of a w x h grid *)
Grid(w, h) == {[x |-> x, y |-> y] : x \in 0..(w - 1), y \in 0..(h - 1)}

(* the stored cell of an in-grid point *)
CellAt(b, p) == b.map[p.y + 1][p.x + 1]

(* the in-grid points that hold a Mine *)
MinePoints(b) == {p \in Grid(b.width, b.height) : CellAt(b, p).kind = "Mine"}

(* the 3 x 3 block around p, without p *)
Around(p) ==
    {q \in {[x |-> x, y |-> y] : x \in (p.x - 1)..(p.x + 1), y \in (p.y - 1)..(p.y + 1)} :
        q # p}

(* the number of mines of b next to p *)
AdjacentMines(b, p) == Cardinality(Around(p) \cap MinePoints(b))

(* every row count and row length is as the fields say *)
Rectangular(b) ==
    /\ Len(b.map) = b.height
    /\ \A y \in 1..b.height : Len(b.map[y]) = b.width

(* the pairs of a sequence of draws, in draw order *)
Pairs(tp) == [i \in 1..(Len(tp) \div 2) |-> [x |-> tp[2 * i - 1], y |-> tp[2 * i]]]

(* the first occurrences of a sequence, in order *)
RECURSIVE FirstDistinct(_)
FirstDistinct(s) ==
    IF s = <<>> THEN <<>>
    ELSE LET init == FirstDistinct(SubSeq(s, 1, Len(s) - 1))
             last == s[Len(s)]
         IN  IF \E i \in 1..(Len(s) - 1) : s[i] = last THEN init ELSE Append(init, last)

(* a sequence of draws without its i-th pair *)
WithoutPair(tp, i) == SubSeq(tp, 1, 2 * i - 2) \o SubSeq(tp, 2 * i + 1, Len(tp))

(* the indices of the pairs that repeat an earlier pair *)
RepeatedPairs(tp) ==
    {i \in 1..(Len(tp) \div 2) : \E j \in 1..(i - 1) : Pairs(tp)[j] = Pairs(tp)[i]}

---------------------------------------------------------------------------
(* C1: for width >= 1, height >= 1, mines < width * height and in-range    *)
(* draws, the board create_board returns has height rows of width cells,   *)
(* exactly mines cells are Mine, at pairwise distinct points, every other  *)
(* cell is Empty, every cell is unrevealed, and the width, height and      *)
(* mines fields are the arguments.                                         *)
C1_CreatedBoard ==
    (ret.op = "create_board" /\ width >= 1 /\ height >= 1 /\ mines < width * height) =>
        /\ ret.res = Ok(board)
        /\ Rectangular(board)
        /\ board.width = width /\ board.height = height /\ board.mines = mines
        /\ Cardinality(MinePoints(board)) = mines
        /\ LET pts == ret.arg.points
           IN  /\ Len(pts) = mines
               /\ \A i, j \in 1..Len(pts) : pts[i] = pts[j] => i = j
               /\ MinePoints(board) = {pts[i] : i \in 1..Len(pts)}
        /\ \A p \in Grid(width, height) :
              /\ CellAt(board, p).open = FALSE
              /\ p \notin MinePoints(board) => CellAt(board, p) = Empty(FALSE)

(* a board of two mines returned after a draw was rejected, with room left *)
C1_Witness ==
    /\ ret.op = "create_board"
    /\ width >= 1 /\ height >= 1
    /\ mines = 2 /\ mines < width * height
    /\ Len(ret.arg.tape) > 2 * mines

(* C2: numbers_on_board on a board from create_board returns a board of    *)
(* the same width, height and mines; every Mine stays a Mine, unrevealed;  *)
(* every other point with n adjacent mines becomes an unrevealed Empty if  *)
(* n = 0 and an unrevealed Number of count n otherwise, so every count is  *)
(* in 1..8 and is the true number of adjacent mines.                       *)
C2_Annotated ==
    (ret.op = "numbers_on_board" /\ ret.stage = "created") =>
        /\ ret.res.ok
        /\ LET b == ret.arg
               r == ret.res.val
           IN  /\ Rectangular(r)
               /\ r.width = b.width /\ r.height = b.height /\ r.mines = b.mines
               /\ \A p \in Grid(b.width, b.height) :
                     LET n == AdjacentMines(b, p)
                     IN  /\ CellAt(b, p).kind = "Mine" => CellAt(r, p) = Mine(FALSE)
                         /\ (CellAt(b, p).kind # "Mine" /\ n = 0) =>
                                CellAt(r, p) = Empty(FALSE)
                         /\ (CellAt(b, p).kind # "Mine" /\ n # 0) =>
                                CellAt(r, p) = Number(FALSE, n)
                         /\ CellAt(r, p).kind = "Number" =>
                                /\ CellAt(r, p).count \in 1..8
                                /\ CellAt(r, p).count = AdjacentMines(r, p)

(* an annotated board with a mine, a Number of count 2 and a grid edge *)
C2_Witness ==
    /\ ret.op = "numbers_on_board" /\ ret.stage = "created" /\ ret.res.ok
    /\ MinePoints(ret.res.val) # {}
    /\ \E p \in Grid(ret.res.val.width, ret.res.val.height) :
          CellAt(ret.res.val, p) = Number(FALSE, 2)

(* the cell c, revealed *)
Revealed(c) == [c EXCEPT !.open = TRUE]

(* C3: every successful open_item changes one cell: the target keeps its   *)
(* variant and count and goes from unrevealed to revealed, every other     *)
(* cell and the width, height and mines fields stay.  So in play the mine  *)
(* positions, the mine count and the counts are those of the annotated     *)
(* board, no Mine is revealed, and the revealed cells are the opened ones. *)
C3_OpenFrame ==
    /\ (ret.op = "open_item" /\ ret.res.ok) =>
          LET b == ret.arg.board
              t == ret.arg.point
              r == ret.res.val
          IN  /\ t \in Grid(b.width, b.height)
              /\ Rectangular(r)
              /\ r.width = b.width /\ r.height = b.height /\ r.mines = b.mines
              /\ CellAt(b, t).open = FALSE
              /\ CellAt(r, t) = Revealed(CellAt(b, t))
              /\ \A p \in Grid(b.width, b.height) \ {t} : CellAt(r, p) = CellAt(b, p)
    /\ pc = "annotated" =>
          /\ Rectangular(board)
          /\ board.width = annotated.width /\ board.height = annotated.height
          /\ board.mines = annotated.mines
          /\ MinePoints(board) = MinePoints(annotated)
          /\ Cardinality(MinePoints(board)) = board.mines
          /\ opened \subseteq Grid(board.width, board.height)
          /\ \A p \in Grid(board.width, board.height) :
                /\ CellAt(board, p) = IF p \in opened
                                      THEN Revealed(CellAt(annotated, p))
                                      ELSE CellAt(annotated, p)
                /\ CellAt(board, p).open <=> p \in opened
                /\ CellAt(board, p).kind = "Mine" => ~CellAt(board, p).open

(* two cells opened, a Number among them, next to an unopened cell *)
C3_Witness ==
    /\ pc = "annotated"
    /\ ret.op = "open_item" /\ ret.res.ok
    /\ Cardinality(opened) = 2
    /\ \E p \in opened : CellAt(board, p).kind = "Number"
    /\ \E p \in opened : \E q \in Around(p) \cap Grid(board.width, board.height) :
          ~CellAt(board, q).open

(* open_item's precondition on the cell of point t of board b *)
Openable(b, t) ==
    /\ t \in Grid(b.width, b.height)
    /\ CellAt(b, t).kind \in {"Empty", "Number"}
    /\ ~CellAt(b, t).open

(* C4: open_item returns a board only for an unrevealed Empty or Number;   *)
(* for a point off the grid, a Mine or a revealed cell it panics and       *)
(* returns none.  So opening an opened point again always fails.           *)
C4_OpenPrecondition ==
    /\ ret.op = "open_item" =>
          /\ ret.res.ok <=> Openable(ret.arg.board, ret.arg.point)
          /\ ~ret.res.ok => (ret.res = Panic /\ pc = "panicked")
    /\ pc = "annotated" =>
          /\ \A t \in Targets : open_item(board, t).ok <=> Openable(board, t)
          /\ \A t \in opened : open_item(board, t) = Panic

(* a point opened, then opened again: the second call panicked *)
C4_Witness ==
    /\ pc = "panicked"
    /\ ret.op = "open_item"
    /\ ret.arg.point \in opened

(* C5: create_board's board is a function of the values the source         *)
(* returned: they are consumed in pairs, x then y, a pair equal to an      *)
(* accepted one is discarded, and the mines are the first `mines` distinct *)
(* pairs in draw order.  A sequence with a repeated pair gives the board   *)
(* of the sequence without that pair.                                      *)
C5_DrawOrder ==
    ret.op = "create_board" =>
        LET tp == ret.arg.tape
        IN  /\ ret.arg.points = FirstDistinct(Pairs(tp))
            /\ Len(ret.arg.points) = mines
            /\ ret.res = Ok(BuildBoard(width, height, mines, FirstDistinct(Pairs(tp))))
            /\ create_board(width, height, mines, tp) = ret.res
            /\ \A i \in RepeatedPairs(tp) :
                  create_board(width, height, mines, WithoutPair(tp, i)) = ret.res

(* a board of two mines at (0, 1) and (1, 0), a repeated pair between them *)
C5_Witness ==
    /\ ret.op = "create_board"
    /\ mines = 2
    /\ RepeatedPairs(ret.arg.tape) # {}
    /\ ret.arg.tape = <<0, 1, 0, 1, 1, 0>>

(* C10, as claimed: numbers_on_board on a board in play never fails; it    *)
(* returns the board with every cell unrevealed, the mines in place and    *)
(* every other cell carrying its recomputed hint.                          *)
C10_ReannotateTotal ==
    (ret.op = "numbers_on_board" /\ ret.stage = "annotated") =>
        /\ ret.res.ok
        /\ LET b == ret.arg
               r == ret.res.val
           IN  /\ r.width = b.width /\ r.height = b.height /\ r.mines = b.mines
               /\ \A p \in Grid(b.width, b.height) :
                     CellAt(r, p) =
                        IF CellAt(b, p).kind = "Mine" THEN Mine(FALSE)
                        ELSE IF AdjacentMines(b, p) = 0 THEN Empty(FALSE)
                        ELSE Number(FALSE, AdjacentMines(b, p))

(* C10, amended: numbers_on_board on a board in play panics exactly when   *)
(* the board holds a Number; when it holds none, it returns the board with *)
(* every cell unrevealed, the mines in place and every other cell Empty.   *)
C10_ReannotatePanicsOnNumber ==
    (ret.op = "numbers_on_board" /\ ret.stage = "annotated") =>
        LET b == ret.arg
        IN  /\ ret.res.ok <=>
                  (\A p \in Grid(b.width, b.height) : CellAt(b, p).kind # "Number")
            /\ ~ret.res.ok => (ret.res = Panic /\ pc = "panicked")
            /\ ret.res.ok =>
                  LET r == ret.res.val
                  IN  /\ Rectangular(r)
                      /\ r.width = b.width /\ r.height = b.height /\ r.mines = b.mines
                      /\ \A p \in Grid(b.width, b.height) :
                            CellAt(r, p) = IF CellAt(b, p).kind = "Mine"
                                           THEN Mine(FALSE)
                                           ELSE Empty(FALSE)

(* a board without mines, a cell of it opened, annotated again: the reveal *)
(* is gone                                                                 *)
C10_Witness ==
    /\ ret.op = "numbers_on_board" /\ ret.stage = "annotated" /\ ret.res.ok
    /\ \E p \in Grid(ret.arg.width, ret.arg.height) : CellAt(ret.arg, p).open

(* C6: at returns absent exactly for p.x < 0, p.y < 0, p.x >= width or     *)
(* p.y >= height, and the cell of row p.y, column p.x otherwise; it fails  *)
(* for no point and leaves the board as it was.                            *)
C6_AtBounds ==
    ret.op = "at" =>
        LET b == ret.arg.board
            p == ret.arg.point
            out == p.x < 0 \/ p.y < 0 \/ p.x >= b.width \/ p.y >= b.height
        IN  /\ (ret.res = None) <=> out
            /\ ~out => ret.res = Some(b.map[p.y + 1][p.x + 1])
            /\ board = b

(* at on an annotated board: the Number in its last row and column *)
C6_Witness ==
    /\ ret.op = "at"
    /\ ret.arg.board.width = 2
    /\ ret.arg.point = [x |-> 1, y |-> ret.arg.board.height - 1]
    /\ ret.res.some
    /\ ret.res.val.kind = "Number"

(* a is b - 1 as integers *)
IsPred(a, b) == b # I32Min /\ a = b - 1

(* a is b + 1 as integers *)
IsSucc(a, b) == b # I32Max /\ a = b + 1

(* s is the 3 x 3 block around p without p, x outer, y inner, ascending *)
IsBlockAround(s, p) ==
    /\ Len(s) = 8
    /\ \A i, j \in 1..8 : s[i] = s[j] => i = j
    /\ \A i \in 1..3 : IsPred(s[i].x, p.x)
    /\ \A i \in 4..5 : s[i].x = p.x
    /\ \A i \in 6..8 : IsSucc(s[i].x, p.x)
    /\ \A i \in {1, 4, 6} : IsPred(s[i].y, p.y)
    /\ \A i \in {2, 7} : s[i].y = p.y
    /\ \A i \in {3, 5, 8} : IsSucc(s[i].y, p.y)

(* C7, as claimed: for every point p, surrounding_points returns the 8     *)
(* distinct points of the 3 x 3 block around p, x outer, y inner.          *)
C7_EveryPoint ==
    ret.op = "surrounding_points" =>
        /\ ret.res.ok
        /\ IsBlockAround(ret.res.val, ret.arg)

(* i32::MIN < a < i32::MAX *)
Inner(a) == I32Min < a /\ a < I32Max

(* C7, amended: for every point p with both coordinates strictly between   *)
(* i32::MIN and i32::MAX, surrounding_points returns the 8 distinct points *)
(* of the 3 x 3 block around p, x outer, y inner, both ascending; they     *)
(* may be negative or outside any board.                                   *)
C7_InnerPoints ==
    (ret.op = "surrounding_points" /\ Inner(ret.arg.x) /\ Inner(ret.arg.y)) =>
        /\ ret.res.ok
        /\ IsBlockAround(ret.res.val, ret.arg)

(* the neighbours of the corner (0, 0): five of them off every board *)
C7_Witness ==
    /\ ret.op = "surrounding_points"
    /\ ret.arg = [x |-> 0, y |-> 0]
    /\ ret.res.ok
    /\ ret.res.val[1] = [x |-> -1, y |-> -1]

C9_ReturnsOnlyBelowCapacity ==
    pc = "created" => mines < width * height

(* C9, amended: on a fair source the placement loop is sure to end exactly *)
(* for mines <= width * height: then create_board returns in the end, and  *)
(* for mines > width * height it never returns.                            *)
C9_ReturnsUpToCapacity ==
    /\ (mines <= width * height) ~> (pc = "created")
    /\ [](pc = "created" => mines <= width * height)

(* create_board returned a 1 x 2 or 2 x 1 board that is all mines *)
C9_Witness ==
    /\ pc = "created"
    /\ mines = 2
    /\ width * height = 2
    /\ Cardinality(MinePoints(board)) = 2

====
